---- MODULE Spec2Model ----
(***************************************************************************)
(* A model of hyper's server core (src/server/mod.rs): the accept loop     *)
(* AddrIncoming::poll with its error backoff, the per-connection service   *)
(* wrappers SocketAddrService and NotifyService, the live-connection       *)
(* counter Info with WaitUntilZero, and Server::run_until, which races the *)
(* shutdown signal against the accept task and then drains.                *)
(*                                                                         *)
(* One reactor runs everything on one thread, so a poll of a task is never *)
(* interleaved with another task.  A poll of the accept task is cut at     *)
(* each listener.accept() call, the only place where it reads the outside  *)
(* world: pc = "accept" says the task stands inside the loop of            *)
(* AddrIncoming::poll, pc = "idle" that no task is being polled.           *)
(*                                                                         *)
(* Several specifications share the definitions.  Spec is                  *)
(* Server::run_until (and Server::run), SpecIncoming is AddrIncoming       *)
(* polled as a bare stream, with the history of the accept() results kept  *)
(* in log, FairSpecIncoming is the same stream over a listener whose       *)
(* queue runs empty, SpecThreads is Server::run_threads, SpecDate is the   *)
(* date ticker of date_render_interval and SpecServe is Serve::poll.       *)
(***************************************************************************)
EXTENDS Integers, Sequences, FiniteSets

\* ---------------------------------------------------------------- bounds
MaxTime == 10           \* the clock stops here unless a timer is pending
TickMs == 5             \* granularity of the clock, in ms
MaxLog == 4             \* accept() calls in SpecIncoming
MaxAccepts == 3         \* connections and errors the listener has in Spec;
                        \* accept() on an empty queue returns WouldBlock
MaxThreads == 3         \* the largest argument of run_threads
MaxActive == 2          \* connections alive at once per worker of run_threads
MaxClock == 3           \* the system clock stops here, in seconds
MaxRefresh == 2         \* fires of the date interval
MaxItems == 3           \* items the incoming stream of Serve gives
MaxCalls == 1           \* requests per Connection of Serve
ShutdownTimeout == 10   \* the configured shutdown_timeout, in ms

\* ------------------------------------------------------- program constants
Delay == 10             \* the accept backoff, Duration::from_millis(10)

Addrs == {"a1", "a2"}   \* peer addresses the kernel may report
MainTask == "main"      \* the task reactor.run drives
LocalAddr == "local"    \* the address the Server was bound to

\* The results of listener.accept() other than success.
PerConnKinds == {"ConnectionRefused", "ConnectionAborted", "ConnectionReset"}
ErrorKinds == PerConnKinds \cup {"WouldBlock", "Other"}
AcceptResults == {"Ok"} \cup ErrorKinds

VARIABLES
    sleep_on_errors,  \* AddrIncoming.sleep_on_errors
    timeout,          \* AddrIncoming.timeout: {} is None, {w} a timer due at w
    now,              \* the clock, in ms
    pc,               \* "idle" | "accept"
    pollRes,          \* what AddrIncoming::poll returned last
    lastAccept,       \* what listener.accept() returned last
    taken,            \* history: accept() calls that took a connection or an
                      \* error from the listener's queue
    armed,            \* history: backoff timers created
    stored,           \* history: backoff timers stored in self.timeout
    yielded,          \* history: AddrStreams returned by AddrIncoming::poll
    sawNotReady,      \* history: some AddrIncoming::poll returned NotReady
    waited,           \* history: some AddrIncoming::poll found the stored
                      \* timer not fired
    log,              \* history (SpecIncoming): the accept() results in order
    phase,            \* "accepting" | "draining" | "done" (run_until returned)
    ret,              \* what run_until returned
    sig,              \* the shutdown signal: "pending" | "ok" | "err"
    info,             \* Info { active, blocker }: blocker {} is None
    strong,           \* run_until still holds the Rc of info
    woken,            \* the main task has been notified since its last poll
    listener,         \* the accept stream (and the listener) still exists
    shutdownTimer,    \* the drain Timeout: {} before the drain, {w} due at w
    conns,            \* the connections spawned, in accept order
    notifies,         \* history: task.notify() calls made by drop
    lastOutcome,      \* history: how the last connection that ended resolved
    entry,            \* the method called: "run" | "run_until"
    threads,          \* run_threads: its argument
    rtpc,             \* run_threads: "idle" | "panicked" | "spawning" |
                      \* "serving" (the calling thread is in srv.run())
    spawned,          \* run_threads: threads spawned so far
    workers,          \* the Servers running, in the order they started
    cores,            \* the reactors created: Core 1 is the Server's own
    listeners,        \* the listeners bound, each with its address: listener
                      \* 1 is the Server's own
    infos,            \* the Info counters created by run_until, in order
    clock,            \* the system clock, in seconds
    ticker,           \* the date ticker task: "none" | "absent" (Interval::new
                      \* failed) | "running" | "ended" | "dropped"
    tickerRes,        \* the last poll of the ticker: what the interval gave
                      \* (saw) and what the poll_fn returned (out)
    rendered,         \* the thread-local rendered date
    interval_on,      \* the thread-local flag: a ticker keeps the date fresh
    refreshes,        \* history: update_interval() calls
    offCalls,         \* history: interval_off() calls
    lastDate,         \* the date the last response was given
    srvItems,         \* Serve: history of the items its incoming stream gave,
                      \* each with whether the factory made a service for it
    srvConns,         \* Serve: the Connections it yielded, in order
    srvRes,           \* Serve: the last poll, what the incoming stream gave
                      \* (saw) and what Serve::poll returned (out)
    srvCalls          \* Serve: history, new_service() calls

incomingVars == <<sleep_on_errors, timeout, now, pc, pollRes, lastAccept,
                  taken, armed, stored, yielded, sawNotReady, waited>>
serverVars == <<phase, ret, sig, info, strong, woken, listener,
                shutdownTimer, conns, notifies, lastOutcome, entry>>
threadVars == <<threads, rtpc, spawned, workers, cores, listeners, infos>>
dateVars == <<clock, ticker, tickerRes, rendered, interval_on, refreshes,
              offCalls, lastDate>>
serveVars == <<srvItems, srvConns, srvRes, srvCalls>>
vars == <<incomingVars, log, serverVars, threadVars, dateVars, serveVars>>

Res(tag, val) == [tag |-> tag, val |-> val]
NoRes == Res("none", "-")

\* ----------------------------------------------------------- AddrIncoming

\* connection_error with ConnectionAborted forgotten.
connection_error_noAborted(e) ==
    \/ e = "ConnectionRefused"
    \/ e = "ConnectionReset"

\* connection_error: the kinds that concern one pending connection only.
connection_error(e) ==
    \/ e = "ConnectionRefused"
    \/ e = "ConnectionAborted"
    \/ e = "ConnectionReset"

\* Timeout::new with the delay dropped: the timer is due at once.
NewTimeout_noDelay(t, delay) == {t}

\* Timeout::new(delay, ..): a timer due delay from now.
NewTimeout(t, delay) == {t + delay}

\* to.poll() of a stored timer at time t: NotReady until it is due.
TimerNotReady(to, t) == \E w \in to : t < w

\* A head of poll that does not look at the stored timer: it clears it and
\* goes on to accept().
AddrIncoming_poll_enter_ignoreTimer ==
    /\ pc = "idle"
    /\ timeout' = {}
    /\ pc' = "accept"
    /\ UNCHANGED <<sleep_on_errors, now, pollRes, lastAccept, taken, armed,
                   stored, yielded, sawNotReady, waited>>

\* A head of poll that leaves a fired timer in self.timeout.
AddrIncoming_poll_enter_keepTimer ==
    /\ pc = "idle"
    /\ IF TimerNotReady(timeout, now)
       THEN /\ pollRes' = Res("NotReady", "-")
            /\ sawNotReady' = TRUE
            /\ waited' = TRUE
            /\ pc' = "idle"
       ELSE /\ pc' = "accept"
            /\ UNCHANGED <<pollRes, sawNotReady, waited>>
    /\ UNCHANGED <<sleep_on_errors, timeout, now, lastAccept, taken, armed,
                   stored, yielded>>

\* The head of AddrIncoming::poll: a stored timer that has not fired makes the
\* poll return NotReady and stay; otherwise the timer is cleared and the
\* accept loop is entered.
AddrIncoming_poll_enter ==
    /\ pc = "idle"
    /\ IF TimerNotReady(timeout, now)
       THEN /\ pollRes' = Res("NotReady", "-")
            /\ sawNotReady' = TRUE
            /\ waited' = TRUE
            /\ pc' = "idle"
            /\ UNCHANGED timeout
       ELSE /\ timeout' = {}
            /\ pc' = "accept"
            /\ UNCHANGED <<pollRes, sawNotReady, waited>>
    /\ UNCHANGED <<sleep_on_errors, now, lastAccept, taken, armed, stored,
                   yielded>>

\* The match with the per-connection arm tried before the sleep_on_errors
\* guard: such errors are retried whatever the flag says.
AcceptBranch_retryFirst(r, sleep) ==
    IF r = "Ok" THEN "yield"
    ELSE IF r = "WouldBlock" THEN "not_ready"
    ELSE IF connection_error(r) THEN "retry"
    ELSE IF sleep THEN "backoff"
    ELSE "error"

\* The match with the backoff left out: under sleep_on_errors only the
\* per-connection errors are handled, the others are returned.
AcceptBranch_noBackoff(r, sleep) ==
    IF r = "Ok" THEN "yield"
    ELSE IF r = "WouldBlock" THEN "not_ready"
    ELSE IF sleep /\ connection_error(r) THEN "retry"
    ELSE "error"

\* A match that goes by the kind of the error alone: per-connection errors
\* are retried, every other error is returned, whatever the flag says.
AcceptBranch_byKindOnly(r, sleep) ==
    IF r = "Ok" THEN "yield"
    ELSE IF r = "WouldBlock" THEN "not_ready"
    ELSE IF connection_error(r) THEN "retry"
    ELSE "error"

\* A sleep arm that does not ask connection_error: every error it takes is
\* followed by a timer.
AcceptBranch_alwaysBackoff(r, sleep) ==
    IF r = "Ok" THEN "yield"
    ELSE IF r = "WouldBlock" THEN "not_ready"
    ELSE IF sleep THEN "backoff"
    ELSE "error"

\* A match whose would-block arm goes round the loop again.
AcceptBranch_spinOnWouldBlock(r, sleep) ==
    IF r = "Ok" THEN "yield"
    ELSE IF r = "WouldBlock" THEN "retry"
    ELSE IF sleep THEN (IF connection_error(r) THEN "retry" ELSE "backoff")
    ELSE "error"

\* The arm of the match on listener.accept() that result r takes when the
\* flag is sleep: the arms are tried in the order the code lists them.
AcceptBranch(r, sleep) ==
    IF r = "Ok" THEN "yield"
    ELSE IF r = "WouldBlock" THEN "not_ready"
    ELSE IF sleep THEN (IF connection_error(r) THEN "retry" ELSE "backoff")
    ELSE "error"

\* One turn of the loop of AddrIncoming::poll: listener.accept() returns r
\* (with peer address a on success).  late says that the thread lost Delay ms
\* between Timeout::new and the first poll of the new timer, which is then
\* ready at once.  The result "Continue" stands for the `continue` of the
\* loop: the poll has not returned.  A "Ready" result carries the address of
\* the AddrStream it yields.
AddrIncoming_accept(r, a, late) ==
    /\ pc = "accept"
    /\ lastAccept' = r
    /\ taken' = IF r = "WouldBlock" THEN taken ELSE taken + 1
    /\ UNCHANGED <<sleep_on_errors, waited>>
    /\ LET arm == AcceptBranch(r, sleep_on_errors) IN
       CASE arm = "yield" ->
              /\ pollRes' = Res("Ready", a)
              /\ yielded' = yielded + 1
              /\ UNCHANGED <<timeout, now, armed, stored, sawNotReady>>
         [] arm = "not_ready" ->
              /\ pollRes' = Res("NotReady", "-")
              /\ sawNotReady' = TRUE
              /\ UNCHANGED <<timeout, now, armed, stored, yielded>>
         [] arm = "retry" ->
              /\ pollRes' = Res("Continue", "-")
              /\ UNCHANGED <<timeout, now, armed, stored, yielded,
                             sawNotReady>>
         [] arm = "backoff" ->
              /\ armed' = armed + 1
              /\ UNCHANGED yielded
              /\ IF late
                 THEN /\ now' = now + Delay
                      /\ pollRes' = Res("Continue", "-")
                      /\ UNCHANGED <<timeout, stored, sawNotReady>>
                 ELSE /\ timeout' = NewTimeout(now, Delay)
                      /\ stored' = stored + 1
                      /\ pollRes' = Res("NotReady", "-")
                      /\ sawNotReady' = TRUE
                      /\ UNCHANGED now
         [] arm = "error" ->
              /\ pollRes' = Res("Err", r)
              /\ UNCHANGED <<timeout, now, armed, stored, yielded,
                             sawNotReady>>

\* The clock.  It stops at MaxTime, except that a pending timer always gets
\* to fire.
TimerWaiting == TimerNotReady(timeout, now) \/ TimerNotReady(shutdownTimer, now)

Tick ==
    /\ pc = "idle"
    /\ phase # "done"
    /\ now + TickMs <= MaxTime \/ TimerWaiting
    /\ now' = now + TickMs
    /\ UNCHANGED <<sleep_on_errors, timeout, pc, pollRes, lastAccept, taken,
                   armed, stored, yielded, sawNotReady, waited, log, serverVars,
                   threadVars, dateVars, serveVars>>

\* ------------------------------------------------------------ the services

\* AddrStream::new: the accepted socket with the address accept() reported.
AddrStream_new(addr) == [remote_addr |-> addr]

\* SocketAddrService::new: the wrapper keeps the address it is given.
SocketAddrService_new(addr) == [addr |-> addr]

\* proto::request::addr: record addr as the peer address of the request.
request_addr(req, addr) == [req EXCEPT !.remote_addr = {addr}]

\* SocketAddrService::call without the stamping.
SocketAddrService_call_noStamp(service, req) == req

\* SocketAddrService::call: stamp the kept address into the request, then
\* hand the request to the user's service.  The value is the request the
\* user's service receives.
SocketAddrService_call(service, req) == request_addr(req, service.addr)

\* A request as the protocol layer parses it: no peer address recorded yet.
ParsedRequest == [remote_addr |-> {}]

\* WaitUntilZero::poll ready one connection early.
WaitUntilZero_poll_offByOne(i) ==
    IF i.active <= 1
    THEN [ready |-> TRUE, info |-> i]
    ELSE [ready |-> FALSE, info |-> [i EXCEPT !.blocker = {MainTask}]]

\* WaitUntilZero::poll that parks the task before it looks at the counter.
WaitUntilZero_poll_parkFirst(i) ==
    [ready |-> i.active = 0, info |-> [i EXCEPT !.blocker = {MainTask}]]

\* WaitUntilZero::poll on Info i: ready at zero, else park the current task
\* in the blocker slot.
WaitUntilZero_poll(i) ==
    IF i.active = 0
    THEN [ready |-> TRUE, info |-> i]
    ELSE [ready |-> FALSE, info |-> [i EXCEPT !.blocker = {MainTask}]]

\* Drop that decrements only when a waiter is parked.
NotifyService_drop_lostDecrement(i, up) ==
    IF ~up \/ i.blocker = {}
    THEN [info |-> i, notify |-> FALSE]
    ELSE LET a == i.active - 1 IN
         IF a = 0
         THEN [info |-> [active |-> a, blocker |-> {}], notify |-> TRUE]
         ELSE [info |-> [i EXCEPT !.active = a], notify |-> FALSE]

\* Drop that takes the waiter at zero but does not notify it.
NotifyService_drop_noNotify(i, up) ==
    IF ~up
    THEN [info |-> i, notify |-> FALSE]
    ELSE LET a == i.active - 1 IN
         IF a = 0 /\ i.blocker # {}
         THEN [info |-> [active |-> a, blocker |-> {}], notify |-> FALSE]
         ELSE [info |-> [i EXCEPT !.active = a], notify |-> FALSE]

\* Drop without the test for zero: any drop notifies a parked waiter.
NotifyService_drop_anyNotify(i, up) ==
    IF ~up
    THEN [info |-> i, notify |-> FALSE]
    ELSE LET a == i.active - 1 IN
         IF i.blocker # {}
         THEN [info |-> [active |-> a, blocker |-> {}], notify |-> TRUE]
         ELSE [info |-> [i EXCEPT !.active = a], notify |-> FALSE]

\* Drop that uses the counter without asking whether it is still there.
NotifyService_drop_noUpgrade(i, up) ==
    LET a == i.active - 1 IN
    IF a = 0 /\ i.blocker # {}
    THEN [info |-> [active |-> a, blocker |-> {}], notify |-> TRUE]
    ELSE [info |-> [i EXCEPT !.active = a], notify |-> FALSE]

\* Drop for NotifyService on Info i; up says whether the weak reference still
\* upgrades.  notify says whether a parked task was notified.
NotifyService_drop(i, up) ==
    IF ~up
    THEN [info |-> i, notify |-> FALSE]
    ELSE LET a == i.active - 1 IN
         IF a = 0 /\ i.blocker # {}
         THEN [info |-> [active |-> a, blocker |-> {}], notify |-> TRUE]
         ELSE [info |-> [i EXCEPT !.active = a], notify |-> FALSE]

\* ------------------------------------------------------ Server::run_until

\* The state of the connection the for_each closure spawns for an accepted
\* socket: the address of the socket, the SocketAddrService built from it,
\* the NotifyService alive, and (history) what the user's service has seen.
NewConn(socket) ==
    LET addr == socket.remote_addr IN
    [remote |-> socket.remote_addr,
     service |-> SocketAddrService_new(addr),
     alive |-> TRUE,
     seen |-> {}]

\* The closure of for_each after the factory succeeded: one NotifyService,
\* one increment, one task spawned.
Spawn(socket) ==
    /\ conns' = Append(conns, NewConn(socket))
    /\ info' = [info EXCEPT !.active = @ + 1]

\* A return that leaves the counter reachable for the connections.
Return_keepsCounter(r) ==
    /\ phase' = "done"
    /\ ret' = r
    /\ UNCHANGED strong

\* run_until returns r: its locals go, the Rc of info among them, and so does
\* the reactor.
Return(r) ==
    /\ phase' = "done"
    /\ ret' = r
    /\ strong' = FALSE

\* wait.select(timeout) polled at time t: WaitUntilZero first, then the timer.
DrainSelect(i, timer, t) ==
    LET w == WaitUntilZero_poll(i) IN
    [done |-> w.ready \/ ~TimerNotReady(timer, t), info |-> w.info]

\* The accept task kept until run_until returns: the listener stays bound
\* during the drain.
DropIncoming_kept ==
    /\ timeout' = {}
    /\ UNCHANGED listener

\* The accept task goes: with it the AddrIncoming, its listener and its timer.
DropIncoming ==
    /\ listener' = FALSE
    /\ timeout' = {}

\* The signal passed through unmapped: its error stays an error.
then_ok_identity(s) == s

\* shutdown_signal.then(|_| Ok(())): whatever the signal resolves with, the
\* mapped future resolves with Ok(()).
then_ok(s) == IF s = "pending" THEN "pending" ELSE "ok"

\* The public methods that run the server on the calling thread.
EntryPoints == {"run", "run_until"}

\* A signal that resolves although run passed future::empty().
shutdown_signal_anyEntry(e) == TRUE

\* Whether the shutdown signal can ever resolve: run_until takes the caller's
\* future, run passes future::empty(), which never does.
shutdown_signal(e) == e = "run_until"

\* A select that polls the accept task before the signal.
select_incomingFirst(a) == "srv"

\* shutdown_signal.select(srv), polled with the mapped signal in state a:
\* select polls its receiver first and its argument only if the receiver is
\* not ready, so a turn goes to the signal if it is resolved and to the
\* accept task otherwise.
select(a) == IF a # "pending" THEN "shutdown_signal" ELSE "srv"

\* The first reactor.run ends because the mapped shutdown signal resolved.  An
\* Err of the select would be returned by run_until; on Ok the accept task,
\* bound to _incoming, is dropped at the end of the match arm, then the drain
\* timer is created and the second reactor.run polls wait.select(timeout) for
\* the first time.

SelectShutdown ==
    /\ UNCHANGED <<lastOutcome, entry, threadVars, dateVars, serveVars>>
    /\ phase = "accepting"
    /\ pc = "idle"
    /\ select(then_ok(sig)) = "shutdown_signal"
    /\ IF then_ok(sig) = "err"
       THEN /\ Return(Res("Err", "Signal"))
            /\ UNCHANGED <<info, shutdownTimer>>
       ELSE LET timer == NewTimeout(now, ShutdownTimeout)
                d == DrainSelect(info, timer, now) IN
            /\ shutdownTimer' = timer
            /\ info' = d.info
            /\ IF d.done
               THEN Return(Res("Ok", "-"))
               ELSE /\ phase' = "draining"
                    /\ UNCHANGED <<ret, strong>>
    /\ DropIncoming
    /\ woken' = FALSE
    /\ UNCHANGED <<sleep_on_errors, now, pc, pollRes, lastAccept, taken,
                   armed, stored, yielded, sawNotReady, waited, log, sig, conns,
                   notifies>>

\* A closure that counts the connection before it asks the factory.
NewServiceFailed_counted ==
    /\ Return(Res("Err", "Factory"))
    /\ listener' = FALSE
    /\ pc' = "idle"
    /\ info' = [info EXCEPT !.active = @ + 1]
    /\ UNCHANGED conns

\* new_service.new_service()? fails: the closure returns the error before it
\* makes a NotifyService, counts or spawns; for_each ends with the error,
\* select passes it on and run_until returns it.
NewServiceFailed ==
    /\ Return(Res("Err", "Factory"))
    /\ listener' = FALSE
    /\ pc' = "idle"
    /\ UNCHANGED <<info, conns>>

\* The shutdown signal is pending, so select polls the accept task: for_each
\* polls the stream.  The listener's readiness may wake the task at any time.
SelectIncoming ==
    /\ phase = "accepting"
    /\ select(then_ok(sig)) = "srv"
    /\ AddrIncoming_poll_enter
    /\ UNCHANGED <<log, serverVars, threadVars, dateVars, serveVars>>

\* The accept task goes through one accept().  On an AddrStream the closure
\* runs (fok: the factory succeeds) and for_each polls the stream again,
\* whose timeout is None; an error of the stream or of the factory ends
\* run_until.
ServerAccept ==
    /\ UNCHANGED <<lastOutcome, entry, threadVars, dateVars, serveVars>>
    /\ phase = "accepting"
    /\ \E r \in AcceptResults, a \in Addrs, late \in BOOLEAN, fok \in BOOLEAN :
          /\ taken < MaxAccepts \/ r = "WouldBlock"
          /\ r # "Ok" => a = "a1" /\ fok
          /\ (r \in PerConnKinds \cup {"Ok", "WouldBlock"} \/ ~sleep_on_errors)
                => ~late
          /\ AddrIncoming_accept(r, a, late)
          /\ CASE pollRes'.tag = "Ready" ->
                    IF fok
                    THEN /\ Spawn(AddrStream_new(pollRes'.val))
                         /\ pc' = "accept"
                         /\ UNCHANGED <<phase, ret, strong, listener>>
                    ELSE NewServiceFailed
               [] pollRes'.tag = "Err" ->
                    /\ Return(Res("Err", pollRes'.val))
                    /\ listener' = FALSE
                    /\ pc' = "idle"
                    /\ UNCHANGED <<info, conns>>
               [] OTHER ->
                    /\ pc' = IF pollRes'.tag = "Continue" THEN "accept"
                             ELSE "idle"
                    /\ UNCHANGED <<phase, ret, strong, listener, info, conns>>
    /\ UNCHANGED <<log, sig, woken, shutdownTimer, notifies>>

\* The main task is polled again during the drain, after a notification or
\* when the drain timer is due.
DrainPoll ==
    /\ UNCHANGED <<lastOutcome, entry, threadVars, dateVars, serveVars>>
    /\ phase = "draining"
    /\ woken \/ ~TimerNotReady(shutdownTimer, now)
    /\ LET d == DrainSelect(info, shutdownTimer, now) IN
       /\ info' = d.info
       /\ IF d.done
          THEN Return(Res("Ok", "-"))
          ELSE UNCHANGED <<phase, ret, strong>>
    /\ woken' = FALSE
    /\ UNCHANGED <<incomingVars, log, sig, listener, shutdownTimer, conns,
                   notifies>>

\* The environment resolves the shutdown signal, with success or an error.
ResolveSignal ==
    /\ shutdown_signal(entry)
    /\ phase = "accepting"
    /\ pc = "idle"
    /\ sig = "pending"
    /\ sig' \in {"ok", "err"}
    /\ UNCHANGED <<incomingVars, log, phase, ret, info, strong, woken,
                   listener, shutdownTimer, conns, notifies, lastOutcome,
                   entry, threadVars, dateVars, serveVars>>

\* The reactor runs the spawned tasks only between polls of the main task; once
\* run_until has returned the reactor is dropped and its tasks with it.
TasksRun == pc = "idle"

\* A request arrives on connection c: NotifyService::call passes it to
\* SocketAddrService::call, which passes it to the user's service.
ServiceCall ==
    /\ UNCHANGED <<lastOutcome, entry, threadVars, dateVars, serveVars>>
    /\ phase # "done"
    /\ TasksRun
    /\ \E c \in 1..Len(conns) :
          /\ conns[c].alive
          /\ LET req == SocketAddrService_call(conns[c].service, ParsedRequest)
             IN conns' = [conns EXCEPT ![c].seen = @ \cup {req.remote_addr}]
    /\ UNCHANGED <<incomingVars, log, phase, ret, sig, info, strong, woken,
                   listener, shutdownTimer, notifies>>

\* How a connection's future can resolve while the reactor runs it.
Outcomes == {"ok", "err"}

\* A spawned future whose error is the error of the server.
ConnectionResult_fatal(outcome) ==
    IF outcome = "err"
    THEN Return(Res("Err", "Connection")) /\ listener' = FALSE
    ELSE UNCHANGED <<phase, ret, strong, listener>>

\* serve_connection(..).map(|_| ()).map_err(|err| error!(..)), spawned: the
\* item is thrown away, the error is logged and thrown away, and the task
\* ends with () either way; nothing is handed to run_until.
ConnectionResult(outcome) == UNCHANGED <<phase, ret, strong, listener>>

\* Connection c ends with success or with a protocol or IO error, or is
\* dropped unfinished with the reactor: its NotifyService is dropped.
ConnectionDrop ==
    /\ TasksRun
    /\ \E c \in 1..Len(conns), outcome \in Outcomes \cup {"dropped"} :
          /\ conns[c].alive
          /\ outcome = "dropped" <=> phase = "done"
          /\ LET d == NotifyService_drop(info, strong) IN
             /\ info' = d.info
             /\ woken' = (woken \/ d.notify)
             /\ notifies' = IF d.notify THEN notifies + 1 ELSE notifies
          /\ conns' = [conns EXCEPT ![c].alive = FALSE]
          /\ lastOutcome' = outcome
          /\ ConnectionResult(outcome)
    /\ UNCHANGED <<incomingVars, log, sig, shutdownTimer, entry,
                   threadVars, dateVars, serveVars>>

\* ------------------------------------------------------------- run_threads

\* assert!(threads > 0, ..): whether the assertion lets the call go on.
assert_threads(n) == n > 0

\* A range that takes its upper end in.
ThreadRange_inclusive(n) == 1..n

\* (1..threads): the indices of the threads to spawn; the upper end is not
\* among them.
ThreadRange(n) == 1..(n - 1)

\* The Server a spawned thread i builds and runs, given the reactors cs,
\* listeners ls and counters is that exist: a Core of its own from
\* Core::new(), a listener of its own from thread_listener, the clone of the
\* Arc of the factory, and, in run_until, an Info of its own.
ThreadServer(i, cs, ls, is) ==
    [thread |-> i, reactor |-> cs + 1, listener |-> Len(ls) + 1,
     info |-> Len(is) + 1, new_service |-> "arc", state |-> "running"]

\* The Server the calling thread runs: the reactor and the listener of self,
\* the Arc of the factory, and an Info of its own from run_until.
CallerServer(is) ==
    [thread |-> 0, reactor |-> 1, listener |-> 1,
     info |-> Len(is) + 1, new_service |-> "arc", state |-> "running"]

\* Info as run_until creates it.
NewInfo == [active |-> 0, blocker |-> {}]

Started(i) == \E w \in 1..Len(workers) : workers[w].thread = i

\* run_threads(n) is called: the assertion panics on 0 before anything else.
RunThreadsCall ==
    /\ rtpc = "idle"
    /\ \E n \in 0..MaxThreads :
          /\ threads' = n
          /\ rtpc' = IF assert_threads(n) THEN "spawning" ELSE "panicked"
    /\ UNCHANGED <<spawned, workers, cores, listeners, infos>>
    /\ UNCHANGED <<incomingVars, log, serverVars, dateVars, serveVars>>

\* The map over the range spawns the next thread.
SpawnThread ==
    /\ rtpc = "spawning"
    /\ spawned + 1 \in ThreadRange(threads)
    /\ spawned' = spawned + 1
    /\ UNCHANGED <<threads, rtpc, workers, cores, listeners, infos>>
    /\ UNCHANGED <<incomingVars, log, serverVars, dateVars, serveVars>>

\* A spawned thread starts: Core::new(), thread_listener on the address of
\* the Server's listener, then srv.run(), whose run_until creates the Info.
ThreadStart ==
    /\ \E i \in 1..spawned :
          /\ ~Started(i)
          /\ workers' = Append(workers,
                               ThreadServer(i, cores, listeners, infos))
    /\ cores' = cores + 1
    /\ listeners' = Append(listeners, listeners[1])
    /\ infos' = Append(infos, NewInfo)
    /\ UNCHANGED <<threads, rtpc, spawned>>
    /\ UNCHANGED <<incomingVars, log, serverVars, dateVars, serveVars>>

\* The range is exhausted: the calling thread builds its Server from the
\* parts of self and calls srv.run().
CallerRun ==
    /\ rtpc = "spawning"
    /\ spawned + 1 \notin ThreadRange(threads)
    /\ rtpc' = "serving"
    /\ workers' = Append(workers, CallerServer(infos))
    /\ infos' = Append(infos, NewInfo)
    /\ UNCHANGED <<threads, spawned, cores, listeners>>
    /\ UNCHANGED <<incomingVars, log, serverVars, dateVars, serveVars>>

\* Worker w accepts a connection on its listener: active += 1 on its Info.
WorkerAccept ==
    /\ \E w \in 1..Len(workers) :
          /\ workers[w].state = "running"
          /\ infos[workers[w].info].active < MaxActive
          /\ infos' = [infos EXCEPT ![workers[w].info].active = @ + 1]
    /\ UNCHANGED <<threads, rtpc, spawned, workers, cores, listeners>>
    /\ UNCHANGED <<incomingVars, log, serverVars, dateVars, serveVars>>

\* A connection of worker w ends: its NotifyService is dropped.
WorkerDrop ==
    /\ \E w \in 1..Len(workers) :
          /\ workers[w].state = "running"
          /\ infos[workers[w].info].active > 0
          /\ infos' = [infos EXCEPT ![workers[w].info] =
                          NotifyService_drop(@, TRUE).info]
    /\ UNCHANGED <<threads, rtpc, spawned, workers, cores, listeners>>
    /\ UNCHANGED <<incomingVars, log, serverVars, dateVars, serveVars>>

\* srv.run() of worker w returns its error and unwrap() panics: the thread
\* of w ends.  run returns nothing else, so the joins after the calling
\* thread's run are never reached.
WorkerError ==
    /\ \E w \in 1..Len(workers) :
          /\ workers[w].state = "running"
          /\ workers' = [workers EXCEPT ![w].state = "panicked"]
    /\ UNCHANGED <<threads, rtpc, spawned, cores, listeners, infos>>
    /\ UNCHANGED <<incomingVars, log, serverVars, dateVars, serveVars>>

\* ---------------------------------------------------------- the date ticker

\* The rendered HTTP date of second c.
Render(c) == <<"date", c>>

\* proto::date::update_interval(): the date is rendered from the clock and
\* the flag says that a ticker keeps it fresh.
update_interval(c) == [rendered |-> Render(c), interval_on |-> TRUE]

\* proto::date::interval_off(): the flag is cleared.
interval_off(r) == [rendered |-> r, interval_on |-> FALSE]

\* The date a response is given at second c: the rendered one while a
\* ticker keeps it fresh, one rendered from the clock otherwise.
date_read(r, on, c) == IF on THEN r ELSE Render(c)

\* What date_interval.poll() can return: the interval is a stream that never
\* ends.
IntervalResults == {"Ready", "NotReady", "Err"}

\* A poll_fn that passes the interval's readiness on.
poll_fn_passReady(r) ==
    [update |-> r = "Ready", out |-> r]

\* The closure of poll_fn for result r of date_interval.poll(): try_ready!
\* returns NotReady and the (unit) error as they are; on Ready the date is
\* updated and NotReady is returned all the same.
poll_fn(r) ==
    [update |-> r = "Ready",
     out |-> IF r = "Err" THEN "Err" ELSE "NotReady"]

\* date_render_interval is called: Interval::new succeeds and the ticker is
\* spawned, or it fails and the function backs out.
DateStart ==
    /\ ticker = "none"
    /\ \E ok \in BOOLEAN : ticker' = IF ok THEN "running" ELSE "absent"
    /\ UNCHANGED <<clock, tickerRes, rendered, interval_on, refreshes,
                   offCalls, lastDate>>
    /\ UNCHANGED <<incomingVars, log, serverVars, threadVars, serveVars>>

\* The reactor polls the ticker.  A result other than NotReady completes
\* poll_fn; then() runs its closure, which drops on_drop, and the task ends.
TickerPoll ==
    /\ ticker = "running"
    /\ \E r \in IntervalResults :
          /\ r = "Ready" => refreshes < MaxRefresh
          /\ LET p == poll_fn(r)
                 d == IF p.update THEN update_interval(clock)
                      ELSE [rendered |-> rendered, interval_on |-> interval_on]
                 fin == p.out # "NotReady"
                 e == IF fin THEN interval_off(d.rendered) ELSE d
             IN /\ tickerRes' = [saw |-> r, out |-> p.out]
                /\ refreshes' = IF p.update THEN refreshes + 1 ELSE refreshes
                /\ rendered' = e.rendered
                /\ interval_on' = e.interval_on
                /\ offCalls' = IF fin THEN offCalls + 1 ELSE offCalls
                /\ ticker' = IF fin THEN "ended" ELSE "running"
    /\ UNCHANGED <<clock, lastDate>>
    /\ UNCHANGED <<incomingVars, log, serverVars, threadVars, serveVars>>

\* The reactor is dropped with the ticker unfinished: the future goes, and
\* with its closure the IntervalDrop it holds.
TickerDrop ==
    /\ ticker = "running"
    /\ ticker' = "dropped"
    /\ LET e == interval_off(rendered) IN
          /\ rendered' = e.rendered
          /\ interval_on' = e.interval_on
    /\ offCalls' = offCalls + 1
    /\ UNCHANGED <<clock, tickerRes, refreshes, lastDate>>
    /\ UNCHANGED <<incomingVars, log, serverVars, threadVars, serveVars>>

\* A response is written: it takes its date.
DateRead ==
    /\ lastDate' = date_read(rendered, interval_on, clock)
    /\ UNCHANGED <<clock, ticker, tickerRes, rendered, interval_on,
                   refreshes, offCalls>>
    /\ UNCHANGED <<incomingVars, log, serverVars, threadVars, serveVars>>

\* A second passes.
ClockTick ==
    /\ clock < MaxClock
    /\ clock' = clock + 1
    /\ UNCHANGED <<ticker, tickerRes, rendered, interval_on, refreshes,
                   offCalls, lastDate>>
    /\ UNCHANGED <<incomingVars, log, serverVars, threadVars, serveVars>>

\* -------------------------------------------------------------------- Serve

\* RemoteAddr::remote of an AddrStream.
remote(io) == io.remote_addr

\* The instance the factory makes on its n-th call: it knows no address and
\* has received no call.
new_service(n) == [id |-> n, remote_addr |-> {}, calls |-> <<>>]

\* HasRemoteAddr::remote_addr on a service instance.
remote_addr(service, addr) == [service EXCEPT !.remote_addr = {addr}]

\* A Serve that does not tell the service the address.
Serve_item_noHook(io, n) ==
    [io |-> io, service |-> new_service(n), driven |-> FALSE]

\* What Serve::poll makes of item io when the factory succeeds on its n-th
\* call: the service is told the address of io, and serve_connection builds
\* the Connection, which nobody drives yet.
Serve_item(io, n) ==
    [io |-> io,
     service |-> remote_addr(new_service(n), remote(io)),
     driven |-> FALSE]

\* What the incoming stream can give to a poll.
IncomingResults == {"Item", "NotReady", "End", "Err"}

\* What Serve::poll returns when the incoming stream gives r and the factory
\* succeeds (fok) or fails: try_ready! returns NotReady and the error as they
\* are, None gives Ready(None), an item gives a Connection or the factory's
\* error.
Serve_out(r, fok) ==
    IF r = "Item" THEN (IF fok THEN "Conn" ELSE "Err")
    ELSE r

\* Serve::poll: the incoming stream is polled once; the factory is called
\* only for an item.
Serve_poll ==
    /\ srvRes.out # "End"
    /\ \E r \in IncomingResults, a \in Addrs, fok \in BOOLEAN :
          /\ r = "Item" => Len(srvItems) < MaxItems
          /\ r # "Item" => a = "a1" /\ fok
          /\ LET io == AddrStream_new(a)
                 out == Serve_out(r, fok)
             IN /\ srvRes' = [saw |-> r, out |-> out]
                /\ srvCalls' = IF r = "Item" THEN srvCalls + 1 ELSE srvCalls
                /\ srvItems' = IF r = "Item"
                               THEN Append(srvItems, [io |-> io, made |-> fok])
                               ELSE srvItems
                /\ srvConns' = IF out = "Conn"
                               THEN Append(srvConns,
                                           Serve_item(io, srvCalls + 1))
                               ELSE srvConns
    /\ UNCHANGED <<incomingVars, log, serverVars, threadVars, dateVars>>

\* The caller drives Connection c (polls it or spawns it), and a request
\* reaches its service, which notes the address it knows at that moment.
Serve_drive ==
    /\ \E c \in 1..Len(srvConns) :
          /\ Len(srvConns[c].service.calls) < MaxCalls
          /\ srvConns' = [srvConns EXCEPT
                            ![c].driven = TRUE,
                            ![c].service.calls =
                                Append(@, srvConns[c].service.remote_addr)]
    /\ UNCHANGED <<srvItems, srvRes, srvCalls>>
    /\ UNCHANGED <<incomingVars, log, serverVars, threadVars, dateVars>>

\* ------------------------------------------------------- specifications

Init ==
    /\ sleep_on_errors \in BOOLEAN
    /\ timeout = {}
    /\ now = 0
    /\ pc = "idle"
    /\ pollRes = NoRes
    /\ lastAccept = "none"
    /\ taken = 0
    /\ armed = 0
    /\ stored = 0
    /\ yielded = 0
    /\ sawNotReady = FALSE
    /\ waited = FALSE
    /\ log = <<>>
    /\ phase = "accepting"
    /\ ret = NoRes
    /\ sig = "pending"
    /\ info = [active |-> 0, blocker |-> {}]
    /\ strong = TRUE
    /\ woken = FALSE
    /\ listener = TRUE
    /\ shutdownTimer = {}
    /\ conns = <<>>
    /\ notifies = 0
    /\ lastOutcome = "none"
    /\ entry \in EntryPoints
    /\ threads = 0
    /\ rtpc = "idle"
    /\ spawned = 0
    /\ workers = <<>>
    /\ cores = 1
    /\ listeners = <<LocalAddr>>
    /\ infos = <<>>
    /\ clock = 0
    /\ ticker = "none"
    /\ tickerRes = [saw |-> "none", out |-> "none"]
    /\ rendered = Render(0)
    /\ interval_on = FALSE
    /\ refreshes = 0
    /\ offCalls = 0
    /\ lastDate = Render(0)
    /\ srvItems = <<>>
    /\ srvConns = <<>>
    /\ srvRes = [saw |-> "none", out |-> "none"]
    /\ srvCalls = 0

Next ==
    \/ SelectShutdown
    \/ SelectIncoming
    \/ ServerAccept
    \/ DrainPoll
    \/ ResolveSignal
    \/ ServiceCall
    \/ ConnectionDrop
    \/ Tick

Spec == Init /\ [][Next]_vars

\* The reactor polls the main task once it is notified or its timer is due,
\* and time passes.
FairSpec == Spec /\ WF_vars(DrainPoll) /\ WF_vars(Tick)

\* AddrIncoming as a bare stream: the consumer polls it, and each poll goes
\* through its accept() calls; log keeps their results.
StreamPoll ==
    /\ pollRes.tag # "Err"
    /\ AddrIncoming_poll_enter
    /\ UNCHANGED <<log, serverVars, threadVars, dateVars, serveVars>>

StreamAccept ==
    /\ Len(log) < MaxLog
    /\ \E r \in AcceptResults, a \in Addrs, late \in BOOLEAN :
          /\ r # "Ok" => a = "a1"
          /\ (r \in PerConnKinds \cup {"Ok", "WouldBlock"} \/ ~sleep_on_errors)
                => ~late
          /\ AddrIncoming_accept(r, a, late)
          /\ log' = Append(log, r)
    /\ pc' = IF pollRes'.tag = "Continue" THEN "accept" ELSE "idle"
    /\ UNCHANGED <<serverVars, threadVars, dateVars, serveVars>>

NextIncoming == StreamPoll \/ StreamAccept \/ Tick

SpecIncoming == Init /\ [][NextIncoming]_vars

\* Server::run_threads: the call, the threads it spawns and the workers, each
\* seen through its Server and its counter.
NextThreads ==
    \/ RunThreadsCall
    \/ SpawnThread
    \/ ThreadStart
    \/ CallerRun
    \/ WorkerAccept
    \/ WorkerDrop
    \/ WorkerError

SpecThreads == Init /\ [][NextThreads]_vars

\* date_render_interval: the ticker, the clock and the responses that read
\* the date.
NextDate ==
    \/ DateStart
    \/ TickerPoll
    \/ TickerDrop
    \/ DateRead
    \/ ClockTick

SpecDate == Init /\ [][NextDate]_vars

\* Serve as a stream polled by its caller, who drives the Connections.
NextServe == Serve_poll \/ Serve_drive

SpecServe == Init /\ [][NextServe]_vars

\* The listener has given all it had (MaxLog results): accept() finds the
\* queue empty and returns WouldBlock.
StreamEmpty ==
    /\ Len(log) = MaxLog
    /\ AddrIncoming_accept("WouldBlock", "a1", FALSE)
    /\ pc' = IF pollRes'.tag = "Continue" THEN "accept" ELSE "idle"
    /\ UNCHANGED <<log, serverVars, threadVars, dateVars, serveVars>>

NextIncomingFair == StreamPoll \/ StreamAccept \/ StreamEmpty \/ Tick

\* AddrIncoming over a listener with a finite queue.  accept() does not
\* block, so inside a poll the next call of the loop is always made.
FairSpecIncoming ==
    /\ Init
    /\ [][NextIncomingFair]_vars
    /\ WF_vars(StreamAccept)
    /\ WF_vars(StreamEmpty)

\* ------------------------------------------------------------- properties

Alive == {c \in 1..Len(conns) : conns[c].alive}
Dropped == {c \in 1..Len(conns) : ~conns[c].alive}

\* C1: while run_until holds the counter, active is the number of accepts
\* whose factory call succeeded minus the number of NotifyService drops, which
\* is the number of NotifyService alive, and it is never negative.
C1_ActiveIsAlive ==
    strong =>
        /\ info.active = Len(conns) - Cardinality(Dropped)
        /\ info.active = Cardinality(Alive)
        /\ info.active >= 0

C1_Witness ==
    /\ strong
    /\ Len(conns) = 3
    /\ Cardinality(Dropped) = 1
    /\ info.active = 2

\* C2: once the shutdown signal has won, run_until returns Ok only with
\* active at zero or the drain timer due; with nothing outstanding it returns
\* in the step that leaves the accept phase; a drain with all connections
\* completed has the main task notified, and the poll that answers a
\* notification returns; and under the reactor's fairness a drain always
\* ends, whether or not the connections complete.
C2_DrainReturns ==
    /\ [](phase = "done" /\ ret.tag = "Ok"
            => info.active = 0 \/ ~TimerNotReady(shutdownTimer, now))
    /\ [](phase = "draining" /\ info.active = 0 => woken)
    /\ [][phase = "accepting" /\ phase' # "accepting" /\ ret'.tag # "Err"
              /\ info.active = 0
            => phase' = "done" /\ ret'.tag = "Ok" /\ now' = now]_vars
    /\ [][phase = "draining" /\ woken /\ ~woken' => phase' = "done"]_vars
    /\ (phase = "draining" ~> phase = "done" /\ ret.tag = "Ok")

C2_Witness ==
    /\ phase = "done"
    /\ ret.tag = "Ok"
    /\ info.active = 2
    /\ ~TimerNotReady(shutdownTimer, now)

\* C3: when the drain wait begins the accept stream and its listener are
\* gone, and from then on no accept() is made, no stream is yielded and no
\* connection is spawned or counted.
C3_NoAcceptAfterShutdown ==
    /\ [](phase # "accepting" => ~listener /\ pc = "idle" /\ timeout = {})
    /\ [][phase # "accepting"
            => /\ taken' = taken
               /\ lastAccept' = lastAccept
               /\ yielded' = yielded
               /\ Len(conns') = Len(conns)
               /\ info'.active <= info.active]_vars

C3_Witness ==
    /\ phase = "draining"
    /\ taken = MaxAccepts
    /\ Len(conns) >= 1
    /\ Cardinality(Dropped) >= 1

\* A step in which a NotifyService is dropped while the counter is held.
CountedDrop == strong /\ Cardinality(Alive') < Cardinality(Alive)

\* C4: a drop that brings active to zero with a waiter parked notifies it and
\* empties the slot within the drop; a drop that leaves active above zero
\* notifies nobody and leaves the slot as it is.
C4_DropWakesWaiter ==
    [][CountedDrop =>
         /\ info'.active = 0 /\ info.blocker # {}
              => /\ notifies' = notifies + 1
                 /\ woken'
                 /\ info'.blocker = {}
         /\ info'.active > 0
              => /\ notifies' = notifies
                 /\ woken' = woken
                 /\ info'.blocker = info.blocker]_vars

C4_Witness ==
    /\ phase = "draining"
    /\ Len(conns) = 2
    /\ info.active = 0
    /\ info.blocker = {}
    /\ notifies = 1
    /\ woken

\* C5: in a whole run at most one notification is delivered; none before a
\* waiter has parked, which happens only in the drain; and during the drain
\* one has been delivered exactly when active has reached zero.
C5_OneNotification ==
    /\ notifies <= 1
    /\ phase = "accepting" => notifies = 0 /\ info.blocker = {}
    /\ phase = "draining" => (notifies = 1 <=> info.active = 0)
    /\ notifies = 1 => info.active = 0 /\ info.blocker = {}

C5_Witness ==
    /\ phase = "done"
    /\ notifies = 1
    /\ Len(conns) = 3

\* C6: with sleep_on_errors false, every accept error but would-block is
\* returned by AddrIncoming::poll and ends run_until with that error, the
\* per-connection kinds included; would-block gives not-ready.
C6_ErrorsAreFatal ==
    ~sleep_on_errors =>
        /\ lastAccept \in ErrorKinds \ {"WouldBlock"}
              => /\ pollRes = Res("Err", lastAccept)
                 /\ phase = "done"
                 /\ ret = Res("Err", lastAccept)
        /\ lastAccept = "WouldBlock"
              => pollRes.tag = "NotReady" /\ ret.tag # "Err"

C6_Witness ==
    /\ ~sleep_on_errors
    /\ lastAccept = "ConnectionReset"
    /\ ret = Res("Err", "ConnectionReset")
    /\ Len(conns) = 2

\* A step in which listener.accept() is called: the only steps taken from
\* inside the loop of AddrIncoming::poll.
AcceptStep == pc = "accept"

\* C7: with sleep_on_errors true, AddrIncoming::poll never returns an error
\* and run_until never ends with an accept error: a per-connection error
\* continues the loop with no timer, any other error but would-block arms one
\* timer of Delay ms.
C7_NoErrorWhenSleeping ==
    /\ [](sleep_on_errors
            => /\ pollRes.tag # "Err"
               /\ ret.tag = "Err" => ret.val = "Factory")
    /\ [][sleep_on_errors /\ AcceptStep =>
            /\ lastAccept' \in PerConnKinds
                 => /\ pollRes'.tag = "Continue"
                    /\ pc' = "accept"
                    /\ armed' = armed
                    /\ timeout' = {}
            /\ lastAccept' = "Other"
                 => /\ armed' = armed + 1
                    /\ phase' = "accepting"
                    /\ \/ timeout' = {now + Delay} /\ pc' = "idle"
                       \/ now' = now + Delay /\ pc' = "accept"]_vars

C7_Witness ==
    /\ sleep_on_errors
    /\ lastAccept = "Other"
    /\ taken = 3
    /\ armed = 2
    /\ timeout # {}
    /\ phase = "accepting"

PerConnThenOk(l) ==
    /\ l # <<>>
    /\ l[Len(l)] = "Ok"
    /\ \A k \in 1..(Len(l) - 1) : l[k] \in PerConnKinds

\* C8: with sleep_on_errors true, per-connection errors followed by one
\* success yield exactly one AddrStream, with no timer created or stored and
\* no not-ready result on the way; and the per-connection kinds are exactly
\* the three: every other error but would-block creates a timer.
C8_PerConnectionPassThrough ==
    sleep_on_errors =>
        /\ PerConnThenOk(log)
              => /\ yielded = 1
                 /\ pollRes.tag = "Ready"
                 /\ armed = 0
                 /\ stored = 0
                 /\ timeout = {}
                 /\ ~sawNotReady
        /\ armed = Cardinality({k \in 1..Len(log) :
                       log[k] \notin PerConnKinds \cup {"Ok", "WouldBlock"}})

C8_Witness ==
    /\ sleep_on_errors
    /\ log = <<"ConnectionReset", "ConnectionAborted", "ConnectionRefused",
               "Ok">>
    /\ yielded = 1

OtherThenOk(l) ==
    /\ Len(l) >= 2
    /\ l[Len(l)] = "Ok"
    /\ \A k \in 1..(Len(l) - 1) : l[k] = "Other"

\* C9: with sleep_on_errors true, K resource-exhaustion errors followed by
\* one success yield exactly one AddrStream, no earlier than (K-1)*Delay ms
\* after the start; one timer is created per error, and accept() is called
\* only with no timer stored.  (now never decreases, so the bound at the
\* state the stream is yielded in is the bound on the time of the yield.)
C9_BackoffDelays ==
    /\ pc = "accept" => timeout = {}
    /\ sleep_on_errors /\ OtherThenOk(log)
          => /\ yielded = 1
             /\ pollRes.tag = "Ready"
             /\ armed = Len(log) - 1
             /\ now >= (Len(log) - 2) * Delay

C9_Witness ==
    /\ sleep_on_errors
    /\ log = <<"Other", "Other", "Other", "Ok">>
    /\ yielded = 1
    /\ stored = 3

\* C10: every request the user's service receives on a connection carries
\* the address accept() returned with that connection's socket.
C10_AddressInjected ==
    \A c \in 1..Len(conns) :
        \A addr \in conns[c].seen : addr = {conns[c].remote}

C10_Witness ==
    \E c, d \in 1..Len(conns) :
        /\ conns[c].remote # conns[d].remote
        /\ conns[c].seen # {}
        /\ conns[d].seen # {}

\* A poll of the main task during the drain: the only step of the drain that
\* leaves both the clock and the connections as they are.
DrainPollStep == phase = "draining" /\ conns' = conns /\ now' = now

ShutdownStep == phase = "accepting" /\ sig # "pending" /\ phase' # "accepting"

\* C12: a shutdown signal that resolved with an error and one that resolved
\* with success have the same effect: the step that leaves the accept phase
\* drops the listener, arms the drain timer and goes into the drain (or
\* through it at once when nothing is alive); run_until returns Ok after a
\* resolved signal, and never returns the signal's error.
C12_SignalErrorIsShutdown ==
    /\ [](ret.tag = "Err" => ret.val # "Signal")
    /\ [](phase = "done" /\ sig # "pending" => ret = Res("Ok", "-"))
    /\ [](phase = "draining" => sig # "pending")
    /\ [][ShutdownStep
            => /\ ~listener'
               /\ shutdownTimer' = NewTimeout(now, ShutdownTimeout)
               /\ sig' = sig
               /\ IF info.active = 0
                  THEN phase' = "done" /\ ret' = Res("Ok", "-")
                  ELSE phase' = "draining" /\ ret' = ret]_vars
    /\ [][phase = "accepting" /\ sig # "pending" /\ pc = "idle"
            => taken' = taken /\ Len(conns') = Len(conns)]_vars

C12_Witness ==
    /\ sig = "err"
    /\ phase = "done"
    /\ ret = Res("Ok", "-")
    /\ ~listener
    /\ Len(conns) = 2
    /\ notifies = 1

\* The step in which new_service() fails.
FactoryFailStep == ret # Res("Err", "Factory") /\ ret' = Res("Err", "Factory")

\* new_service() has been called once per spawned connection, and once more
\* if it failed.
NewServiceCalls ==
    Len(conns) + (IF ret = Res("Err", "Factory") THEN 1 ELSE 0)

\* C13: when new_service() fails on its third call, two connections have been
\* spawned and stay the only ones; the stream did yield the third socket, but
\* the failing step adds no connection and leaves active and the blocker as
\* they were; run_until has returned with the factory's error and the listener
\* is gone.
C13_FactoryFailure ==
    /\ [][FactoryFailStep /\ Len(conns) = 2
            => /\ conns' = conns
               /\ info' = info
               /\ notifies' = notifies
               /\ yielded' = yielded + 1
               /\ pollRes'.tag = "Ready"
               /\ phase' = "done"
               /\ ~listener']_vars
    /\ [](ret = Res("Err", "Factory") /\ NewServiceCalls = 3
            => /\ phase = "done"
               /\ Len(conns) = 2
               /\ yielded = 3
               /\ info.active <= 2
               /\ ~strong /\ ~listener)
    /\ [][ret = Res("Err", "Factory") => ret' = ret /\ info' = info
                                         /\ Len(conns') = Len(conns)]_vars

C13_Witness ==
    /\ ret = Res("Err", "Factory")
    /\ NewServiceCalls = 3
    /\ \A c \in 1..Len(conns) : conns[c].seen # {}
    /\ info.active = 2

\* The accept errors that are not the would-block of an empty queue.
AcceptErrors == ErrorKinds \ {"WouldBlock"}

\* C14 as first stated: an accept error that is not of a per-connection kind
\* ends run_until with that error, whatever sleep_on_errors is.
C14_LeakUnlessPerConnection ==
    lastAccept \in AcceptErrors \ PerConnKinds
        => phase = "done" /\ ret = Res("Err", lastAccept)

\* C14: an accept error other than would-block ends run_until with that error
\* exactly when sleep_on_errors is false; the per-connection kinds are then
\* returned like any other, and with sleep_on_errors true no accept error of
\* any kind is returned.
C14_LeakIffNotSleeping ==
    /\ lastAccept \in AcceptErrors
          => ((phase = "done" /\ ret = Res("Err", lastAccept))
                 <=> ~sleep_on_errors)
    /\ ret.tag = "Err" /\ ret.val \in ErrorKinds
          => ~sleep_on_errors /\ ret.val = lastAccept /\ ret.val \in AcceptErrors

C14_Witness ==
    /\ sleep_on_errors
    /\ lastAccept = "Other"
    /\ stored = 1
    /\ phase = "done"
    /\ ret = Res("Ok", "-")
    /\ Len(conns) = 1

\* Connection c ends with a protocol or IO error in this step.
ConnectionFails(c) ==
    conns[c].alive /\ ~conns'[c].alive /\ lastOutcome' = "err"

\* C15: the step in which a connection ends with a protocol or IO error
\* leaves run_until where it is (phase, result, signal, listener, drain
\* timer), leaves the accept loop as it is, changes no other connection, and
\* takes exactly one from active; run_until never returns a connection's
\* error.
C15_ConnectionErrorStaysLocal ==
    /\ [](ret.tag = "Err" => ret.val \in ErrorKinds \cup {"Factory"})
    /\ [](lastOutcome = "err" /\ phase = "done" => ret.val # "Connection")
    /\ [][\A c \in 1..Len(conns) :
            ConnectionFails(c)
              => /\ phase' = phase /\ ret' = ret /\ sig' = sig
                 /\ listener' = listener /\ strong' = strong
                 /\ shutdownTimer' = shutdownTimer
                 /\ UNCHANGED incomingVars
                 /\ Len(conns') = Len(conns)
                 /\ \A d \in 1..Len(conns) : d # c => conns'[d] = conns[d]
                 /\ conns'[c] = [conns[c] EXCEPT !.alive = FALSE]
                 /\ info'.active = info.active - 1]_vars

C15_Witness ==
    /\ lastOutcome = "err"
    /\ phase = "accepting"
    /\ pc = "accept"
    /\ listener
    /\ Len(conns) = 2
    /\ ~conns[1].alive
    /\ conns[2].alive /\ conns[2].seen # {}
    /\ info.active = 1

\* C16: under Server::run the shutdown signal stays pending for ever, there
\* is no drain and no Ok: if run has returned, it returned the error of the
\* last accept() or the error of the factory.
C16_RunNeverReturnsOk ==
    entry = "run" =>
        /\ sig = "pending"
        /\ phase \in {"accepting", "done"}
        /\ shutdownTimer = {}
        /\ ret.tag # "Ok"
        /\ phase = "done"
              => /\ ret.tag = "Err"
                 /\ \/ ret.val = "Factory"
                    \/ ret.val = lastAccept /\ lastAccept \in AcceptErrors

C16_Witness ==
    /\ entry = "run"
    /\ sleep_on_errors
    /\ armed = 1
    /\ phase = "done"
    /\ ret = Res("Err", "Factory")
    /\ Len(conns) = 1

\* The counter of worker w.
ActiveOf(w) == infos[workers[w].info].active

\* C18: run_threads(0) panics on its assertion with no thread spawned and no
\* reactor, listener or counter created.  For N >= 1 at most N - 1 threads
\* are spawned and at most N workers run, the calling thread being one of
\* them once the N - 1 threads are spawned; any two workers differ in their
\* thread, their reactor, their listener and their counter, their listeners
\* are bound to the one address, and they hold the one factory; a step
\* changes the counter of at most one worker.
C18_WorkersShareOnlyFactory ==
    /\ [](rtpc = "panicked" <=> rtpc # "idle" /\ threads = 0)
    /\ [](rtpc = "panicked"
            => /\ spawned = 0 /\ workers = <<>> /\ infos = <<>>
               /\ cores = 1 /\ Len(listeners) = 1)
    /\ [](rtpc \in {"spawning", "serving"}
            => /\ spawned <= threads - 1
               /\ Len(workers) <= threads
               /\ \A w \in 1..Len(workers) :
                     workers[w].thread \in 0..(threads - 1))
    /\ [](rtpc = "serving" <=> Started(0))
    /\ [](rtpc = "serving" => spawned = threads - 1)
    /\ [](rtpc = "serving" /\ (\A i \in 1..spawned : Started(i))
            => Len(workers) = threads)
    /\ [](\A v, w \in 1..Len(workers) :
            /\ v # w => /\ workers[v].thread # workers[w].thread
                        /\ workers[v].reactor # workers[w].reactor
                        /\ workers[v].listener # workers[w].listener
                        /\ workers[v].info # workers[w].info
            /\ workers[v].reactor \in 1..cores
            /\ workers[v].info \in 1..Len(infos)
            /\ workers[v].listener \in 1..Len(listeners)
            /\ listeners[workers[v].listener] = LocalAddr
            /\ workers[v].new_service = workers[w].new_service)
    /\ [][\A v, w \in 1..Len(workers) :
            v # w /\ ActiveOf(v)' # ActiveOf(v) => ActiveOf(w)' = ActiveOf(w)]_vars

C18_Witness ==
    /\ threads = 3
    /\ rtpc = "serving"
    /\ Len(workers) = 3
    /\ workers[1].thread = 2
    /\ ActiveOf(1) = 2
    /\ ActiveOf(2) = 0
    /\ ActiveOf(3) = 1

\* A step in which AddrIncoming::poll returns: a step other than Tick that
\* ends outside the accept loop.
PollReturns == pc' = "idle" /\ now' = now

\* C19: in the state a poll of AddrIncoming returns in, a timer is stored
\* exactly if sleep_on_errors is true, the last accept() gave an error that is
\* neither per-connection nor would-block, and the poll returned not-ready;
\* the stored timer has then not fired.  No timer is stored when the poll
\* returns a stream or an error, when the last accept() gave would-block, or
\* when sleep_on_errors is false.
C19_TimerStoredIffPaused ==
    /\ [](~sleep_on_errors => timeout = {})
    /\ [][PollReturns =>
            /\ timeout' # {}
                 <=> /\ sleep_on_errors
                     /\ lastAccept' \in AcceptErrors \ PerConnKinds
                     /\ pollRes'.tag = "NotReady"
            /\ timeout' # {} => TimerNotReady(timeout', now')
            /\ pollRes'.tag \in {"Ready", "Err"} => timeout' = {}
            /\ lastAccept' \in {"Ok", "WouldBlock"} => timeout' = {}]_vars

C19_Witness ==
    /\ sleep_on_errors
    /\ log = <<"Other", "Ok", "Other">>
    /\ pc = "idle"
    /\ pollRes.tag = "NotReady"
    /\ TimerNotReady(timeout, now)
    /\ stored = 2
    /\ yielded = 1

\* A step in which listener.accept() is called and returns something other
\* than the would-block of an empty queue, or anything at all in the stream
\* of SpecIncoming.
AcceptCalled == taken' # taken \/ log' # log \/ lastAccept' # lastAccept

\* C20: a poll that finds the stored timer not fired returns not-ready and
\* leaves the timer, the accept() history and the listener's queue as they
\* were; every state with such a timer is outside the accept loop with
\* not-ready reported; the accept loop is entered only by a poll that finds
\* no unfired timer and then stores None, and accept() is called only inside
\* the loop, with None stored.
C20_NoAcceptWhileTimerPending ==
    /\ [](TimerNotReady(timeout, now)
            => pc = "idle" /\ pollRes.tag = "NotReady")
    /\ [][TimerNotReady(timeout, now) /\ now' = now
            => /\ pollRes' = Res("NotReady", "-")
               /\ pc' = "idle"
               /\ timeout' = timeout
               /\ ~AcceptCalled
               /\ armed' = armed /\ stored' = stored
               /\ yielded' = yielded]_vars
    /\ [][pc = "idle" /\ pc' = "accept"
            => ~TimerNotReady(timeout, now) /\ timeout' = {}]_vars
    /\ [][AcceptCalled => pc = "accept" /\ timeout = {}]_vars
    /\ [](waited => stored >= 1)

C20_Witness ==
    /\ waited
    /\ stored = 1
    /\ log = <<"Other", "Ok">>
    /\ yielded = 1
    /\ timeout = {}
    /\ now >= Delay

\* The accept() calls of the history that gave a result in set S.
CallsWith(S) == Cardinality({k \in 1..Len(log) : log[k] \in S})

\* C21 as first stated: every outcome of accept() but would-block arms a
\* backoff timer.
C21_OnlyWouldBlockArmsNone ==
    armed = CallsWith(AcceptResults \ {"WouldBlock"})

\* C21: a backoff timer is created by one outcome of accept() only, an error
\* that is neither would-block nor per-connection met with sleep_on_errors
\* true; success, would-block, per-connection errors and every error met
\* with sleep_on_errors false create none.  Among the not-ready returns of
\* poll, the one after would-block is the only one with no timer stored.
C21_OnlyBackoffArms ==
    /\ armed = IF sleep_on_errors
               THEN CallsWith(AcceptErrors \ PerConnKinds)
               ELSE 0
    /\ stored <= armed
    /\ pc = "idle" /\ pollRes.tag = "NotReady" /\ timeout = {}
          => lastAccept = "WouldBlock"

C21_Witness ==
    /\ sleep_on_errors
    /\ log = <<"ConnectionReset", "Other", "WouldBlock", "Ok">>
    /\ armed = 1
    /\ stored = 1
    /\ yielded = 1

\* A poll of the ticker whose interval fired, as far as a step shows it.
TickerSawFire ==
    /\ tickerRes'.saw = "Ready"
    /\ tickerRes' # tickerRes \/ refreshes' # refreshes

TickerGone == ticker \in {"ended", "dropped"}

\* C22: the ticker task ends only when its interval fails, and goes
\* otherwise only by being dropped; a poll that sees the interval fire calls
\* update_interval once, which renders the date from the clock, reports
\* not-ready and leaves the task running; the step in which the task ends or
\* is dropped calls interval_off once, no other step does, and from then on
\* the flag is off and a response takes its date from the clock.
C22_TickerNeverCompletes ==
    /\ [][ticker = "running" /\ ticker' # "running"
            => \/ ticker' = "ended" /\ tickerRes'.saw = "Err"
               \/ ticker' = "dropped" /\ tickerRes' = tickerRes]_vars
    /\ [][TickerSawFire
            => /\ refreshes' = refreshes + 1
               /\ rendered' = Render(clock)
               /\ interval_on'
               /\ tickerRes'.out = "NotReady"
               /\ ticker' = "running"
               /\ offCalls' = offCalls]_vars
    /\ [][refreshes' # refreshes => TickerSawFire]_vars
    /\ [][offCalls' # offCalls
            => /\ offCalls' = offCalls + 1
               /\ ticker = "running" /\ TickerGone'
               /\ ~interval_on']_vars
    /\ [](offCalls = IF TickerGone THEN 1 ELSE 0)
    /\ [](TickerGone => ~interval_on)
    /\ [][TickerGone /\ lastDate' # lastDate
            => lastDate' = Render(clock)]_vars

C22_Witness ==
    /\ ticker = "dropped"
    /\ refreshes = 2
    /\ offCalls = 1
    /\ clock = 3
    /\ rendered = Render(1)
    /\ lastDate = Render(3)

IsMade(item) == item.made

\* The items of the incoming stream for which the factory made a service.
MadeItems == SelectSeq(srvItems, IsMade)

\* C23: the Connections Serve has yielded are, in order, the items of the
\* incoming stream for which the factory succeeded, one each; the factory is
\* called once per item and for nothing else, and no two Connections hold the
\* same instance; a Connection is yielded undriven, its service having
\* received no call and knowing the remote() of its item, so every call the
\* service receives finds that address; an item whose factory call fails
\* gives an error from that poll, and not-ready, end and error of the
\* incoming stream are what the poll returns.
C23_OneConnectionPerItem ==
    /\ [](/\ Len(srvConns) = Len(MadeItems)
          /\ \A k \in 1..Len(srvConns) : srvConns[k].io = MadeItems[k].io)
    /\ [](srvCalls = Len(srvItems))
    /\ [](\A c, d \in 1..Len(srvConns) :
            c # d => srvConns[c].service.id # srvConns[d].service.id)
    /\ [](\A c \in 1..Len(srvConns) :
            /\ srvConns[c].service.remote_addr = {remote(srvConns[c].io)}
            /\ Len(srvConns[c].service.calls) > 0 => srvConns[c].driven
            /\ \A k \in 1..Len(srvConns[c].service.calls) :
                  srvConns[c].service.calls[k] = {remote(srvConns[c].io)})
    /\ [][Len(srvConns') # Len(srvConns)
            => /\ Len(srvConns') = Len(srvConns) + 1
               /\ Len(srvItems') = Len(srvItems) + 1
               /\ srvRes' = [saw |-> "Item", out |-> "Conn"]
               /\ ~srvConns'[Len(srvConns')].driven
               /\ srvConns'[Len(srvConns')].service.calls = <<>>
               /\ \A c \in 1..Len(srvConns) : srvConns'[c] = srvConns[c]]_vars
    /\ [](srvRes.saw = "Item"
            => srvRes.out = IF srvItems[Len(srvItems)].made
                            THEN "Conn" ELSE "Err")
    /\ [](srvRes.saw \in {"NotReady", "End", "Err"}
            => srvRes.out = srvRes.saw)

C23_Witness ==
    /\ Len(srvItems) = 3
    /\ srvItems[1].made /\ ~srvItems[2].made /\ srvItems[3].made
    /\ remote(srvItems[1].io) # remote(srvItems[3].io)
    /\ Len(srvConns) = 2
    /\ \A c \in 1..2 : Len(srvConns[c].service.calls) = 1
    /\ srvRes.out = "End"

\* C24: the blocker slot holds a task only while active is above zero, and
\* never more than one: only the drain parks one, a poll of the drain that
\* finds active at zero returns and leaves the slot empty, a poll that does
\* not return leaves exactly the polling task in it, and the drop that brings
\* active to zero leaves it empty.
C24_BlockerOnlyWhileActive ==
    /\ [](info.blocker # {} => info.active > 0)
    /\ [](info.blocker \subseteq {MainTask} /\ Cardinality(info.blocker) <= 1)
    /\ [](phase = "accepting" => info.blocker = {})
    /\ [][info.blocker = {} /\ info'.blocker # {}
            => /\ phase' = "draining"
               /\ info'.active = info.active
               /\ info.active > 0]_vars
    /\ [][sig # "pending" /\ phase # "done" /\ phase' = "done"
                /\ info.active = 0
            => info'.blocker = {} /\ ret' = Res("Ok", "-")]_vars
    /\ [][DrainPollStep /\ phase' = "draining"
            => info'.blocker = {MainTask} /\ info'.active > 0]_vars
    /\ [][CountedDrop /\ info'.active = 0 => info'.blocker = {}]_vars

C24_Witness ==
    /\ phase = "draining"
    /\ info.blocker = {MainTask}
    /\ info.active = 1
    /\ Len(conns) = 2
    /\ Cardinality(Dropped) = 1
    /\ lastOutcome = "ok"
    /\ notifies = 0

\* C25: run_until returns an error only from the accept phase, in the step
\* in which the accept task ends with it: that step starts no drain timer,
\* parks no task and leaves the counter and the connections as they are,
\* whatever active is; the counter is released with the return, so every
\* connection that goes afterwards goes with the reactor and its drop changes
\* nothing.
C25_ErrorSkipsDrain ==
    /\ [](ret.tag = "Err"
            => /\ phase = "done"
               /\ shutdownTimer = {}
               /\ info.blocker = {}
               /\ ~strong /\ ~listener)
    /\ [](phase = "draining" => ret.tag # "Err")
    /\ [][ret.tag # "Err" /\ ret'.tag = "Err"
            => /\ phase = "accepting" /\ phase' = "done"
               /\ pc = "accept"
               /\ ret'.val \in {lastAccept', "Factory"}
               /\ info' = info
               /\ conns' = conns
               /\ now' = now]_vars
    /\ [][ret.tag = "Err"
            => /\ ret' = ret
               /\ info' = info
               /\ notifies' = notifies
               /\ woken' = woken
               /\ lastOutcome' \in {lastOutcome, "dropped"}]_vars

C25_Witness ==
    /\ ret = Res("Err", "Other")
    /\ info.active = 2
    /\ Len(conns) = 2
    /\ Alive = {}
    /\ lastOutcome = "dropped"
    /\ now = 0

\* C26: once the shutdown signal is resolved, the turns of the select go to
\* it and not to the accept task: no accept() is called, nothing is yielded
\* or spawned and no error is returned, whatever the listener holds, and the
\* turn that finds the signal resolved takes the shutdown path; so a signal
\* resolved before the first turn leaves run_until with no accept() ever
\* called and no connection.
C26_SignalPolledFirst ==
    /\ [][sig # "pending"
            => /\ lastAccept' = lastAccept
               /\ taken' = taken
               /\ yielded' = yielded
               /\ armed' = armed
               /\ Len(conns') = Len(conns)
               /\ pc' = "idle"
               /\ ret'.tag # "Err"]_vars
    /\ [][sig # "pending" /\ phase = "accepting" /\ now' = now
                /\ conns' = conns
            => ~listener' /\ phase' \in {"draining", "done"}]_vars
    /\ [](sig # "pending" /\ phase = "done" => ret = Res("Ok", "-"))
    /\ [](sig # "pending" /\ pollRes = NoRes
            => lastAccept = "none" /\ taken = 0 /\ conns = <<>>)

C26_Witness ==
    /\ ~sleep_on_errors
    /\ sig = "ok"
    /\ phase = "done"
    /\ ret = Res("Ok", "-")
    /\ pollRes = NoRes
    /\ lastAccept = "none"
    /\ conns = <<>>
    /\ now = 0

\* A step of the accept loop that calls accept() and stays in the loop.
LoopsOn == pc = "accept" /\ pc' = "accept" /\ log' # log

\* C27: a poll of AddrIncoming returns in four cases only: a stream after a
\* successful accept(), not-ready after would-block, the error of accept()
\* when sleep_on_errors is false, and not-ready with a stored timer that has
\* not fired.  The loop goes round again exactly on a per-connection error or
\* on a backoff timer that is ready at once, both only with sleep_on_errors
\* true, and then nothing is returned; so after any run of per-connection
\* errors the poll is still in the loop, and over a listener that gives
\* finitely many results every poll returns.
C27_PollReturnsOrLoops ==
    /\ [][PollReturns
            => \/ pollRes'.tag = "Ready" /\ lastAccept' = "Ok"
               \/ /\ pollRes'.tag = "NotReady"
                  /\ lastAccept' = "WouldBlock" /\ timeout' = {}
               \/ /\ pollRes'.tag = "Err" /\ ~sleep_on_errors
                  /\ pollRes'.val = lastAccept' /\ lastAccept' \in AcceptErrors
               \/ pollRes'.tag = "NotReady" /\ TimerNotReady(timeout', now')
                                                                     ]_vars
    /\ [][LoopsOn
            => /\ sleep_on_errors
               /\ pollRes'.tag = "Continue"
               /\ \/ lastAccept' \in PerConnKinds /\ now' = now
                  \/ lastAccept' = "Other" /\ now' = now + Delay
               /\ timeout' = {} /\ yielded' = yielded]_vars
    /\ [][pc = "accept" /\ log' # log /\ sleep_on_errors
                /\ lastAccept' \in PerConnKinds
            => pc' = "accept"]_vars
    /\ [](sleep_on_errors /\ lastAccept \in PerConnKinds
             /\ (\A k \in 1..Len(log) : log[k] \in PerConnKinds)
            => pc = "accept" /\ yielded = 0 /\ ~sawNotReady)
    /\ (pc = "accept" ~> pc = "idle")

C27_Witness ==
    /\ sleep_on_errors
    /\ log = <<"ConnectionReset", "ConnectionReset", "ConnectionAborted",
               "ConnectionRefused">>
    /\ lastAccept = "WouldBlock"
    /\ pc = "idle"
    /\ pollRes.tag = "NotReady"
    /\ now = 0
    /\ ~waited

====
